---- MODULE Spec2Model ----
(***************************************************************************)
(* KokoroTTSService (src/unnamed/part_001): a host-side client that        *)
(* supervises one external synthesis worker, correlates the worker's       *)
(* responses with the outstanding generateAudio calls, and restarts the    *)
(* worker when it exits.                                                   *)
(*                                                                         *)
(* One action is one callback of the Node event loop (an API call, a       *)
(* stream or child-process event, a timer).  The promise continuations a   *)
(* callback triggers run in the microtask drain that follows it, before    *)
(* any other callback, and are part of the same action.  Timers are        *)
(* untimed: an armed timer may fire at any later step.                     *)
(*                                                                         *)
(* emit('error', ...) is modelled with a listener attached (no effect on   *)
(* the service's own state).                                               *)
(***************************************************************************)
EXTENDS Integers, Sequences, FiniteSets, TLC

\* private maxRestartAttempts = 3
maxRestartAttempts == 3

\* number of generateAudio calls that get past the guards in one run
MaxCalls == 2

\* initialize() runs once from the constructor and once per restart timer;
\* one slot more than the code can use, so that a run that restarts once too
\* often is representable.
MaxInit == maxRestartAttempts + 2

\* this.process = null
null == 0

Inits == 1..MaxInit
Ids == 0..(MaxCalls - 1)

VARIABLES
    process,            \* this.process: null or the index of the spawned child
    initialized,        \* this.initialized
    pendingRequests,    \* keys of this.pendingRequests, in insertion order
    requestIdCounter,   \* this.requestIdCounter
    restartAttempts,    \* this.restartAttempts
    nInit,              \* number of initialize() invocations so far
    startPromise,       \* per invocation: the promise of startPythonProcess
    startTimer,         \* per invocation: the 120 s setTimeout is armed
    readyListener,      \* per invocation: the once('ready') listener is attached
    child,              \* per invocation: state of the ChildProcess it spawned
    markerSeen,         \* per child: it has written the readiness marker
    stdinDestroyed,     \* per child: process.stdin.destroyed
    inbox,              \* per child: request ids written to its stdin, unanswered
    restartTimers,      \* number of armed 5 s restart timers
    callTimer,          \* per request id: the 60 s setTimeout is armed
    outcome,            \* per request id: state of the promise generateAudio returned
    shutdownCalled      \* shutdown() has been invoked

vars == <<process, initialized, pendingRequests, requestIdCounter, restartAttempts,
          nInit, startPromise, startTimer, readyListener, child, markerSeen,
          stdinDestroyed, inbox, restartTimers, callTimer, outcome,
          shutdownCalled>>

\* What the callers and the worker's output stream add to the service's own
\* state; each group is used by the specification that studies it and is
\* idle in the others.
VARIABLES
    apiCall,            \* the public method invoked in the last step, or "none"
    thrown,             \* what that invocation threw synchronously, or "none"
    readyPoll,          \* the promise of an isReady() call
    stream,             \* the characters a worker writes to its stdout
    rest,               \* the part of stream not delivered yet
    jsonBuffer,         \* jsonBuffer of the stdout handler
    emitted,            \* the responses the stdout handler passed to handleResponse
    now,                \* Date.now()
    files,              \* public/tts_audio_<t>.wav: its size in bytes, or absent
    artifacts           \* per response handled by a resolve wrapper: what it did

apiVars == <<apiCall, thrown>>
pollVars == <<readyPoll>>
parserVars == <<stream, rest, jsonBuffer, emitted>>
artVars == <<now, files, artifacts>>
auxVars == <<apiVars, pollVars, parserVars, artVars>>
allVars == <<vars, auxVars>>

svcVars == <<process, initialized, restartAttempts>>
initVars == <<nInit, startPromise, startTimer, readyListener>>
childVars == <<child, markerSeen, stdinDestroyed, inbox>>
callVars == <<pendingRequests, requestIdCounter, callTimer, outcome>>

\* A settled outcome of the promise generateAudio returns.
Settled == {"ref", "workerError", "emptyBuffer", "saveFailed", "writeMismatch",
            "timeout", "sendFailed"}

----
\* Promise semantics: resolve/reject settle a pending promise and are ignored
\* on a settled one.
Settle(cur, o) == IF cur = "pending" THEN o ELSE cur

\* Map.delete(requestId) on the insertion-ordered key list.
Delete(seq, id) == SelectSeq(seq, LAMBDA k : k # id)

----
\* startPythonProcess (the executor of its promise), called by initialize():
\* the new invocation gets index nInit + 1.
startPythonProcess(exists) ==
    LET i == nInit + 1 IN
    /\ nInit' = i
    /\ IF ~exists
       THEN \* fs.existsSync(pythonPath) is false: reject, nothing spawned
            /\ startPromise' = [startPromise EXCEPT ![i] = "rejected"]
            /\ UNCHANGED <<process, startTimer, readyListener, child>>
       ELSE /\ process' = i
            /\ child' = [child EXCEPT ![i] = "running"]
            /\ startPromise' = [startPromise EXCEPT ![i] = "pending"]
            /\ startTimer' = [startTimer EXCEPT ![i] = TRUE]
            /\ readyListener' = [readyListener EXCEPT ![i] = TRUE]

\* The state after construction of the service object.
ServiceInit ==
    /\ initialized = FALSE
    /\ pendingRequests = <<>>
    /\ requestIdCounter = 0
    /\ restartAttempts = 0
    /\ nInit = 1
    /\ markerSeen = [i \in Inits |-> FALSE]
    /\ stdinDestroyed = [i \in Inits |-> FALSE]
    /\ inbox = [i \in Inits |-> <<>>]
    /\ restartTimers = 0
    /\ callTimer = [id \in Ids |-> FALSE]
    /\ outcome = [id \in Ids |-> "unused"]
    /\ shutdownCalled = FALSE
    \* the constructor has called initialize()
    /\ \E exists \in BOOLEAN :
         /\ process = IF exists THEN 1 ELSE null
         /\ child = [i \in Inits |-> IF exists /\ i = 1 THEN "running" ELSE "unborn"]
         /\ startPromise = [i \in Inits |-> IF i = 1
                                              THEN (IF exists THEN "pending" ELSE "rejected")
                                              ELSE "none"]
         /\ startTimer = [i \in Inits |-> exists /\ i = 1]
         /\ readyListener = [i \in Inits |-> exists /\ i = 1]

\* No public method has been called, the worker has written nothing and no
\* artifact file exists.
ApiIdle == apiCall = "none" /\ thrown = "none"
PollIdle == readyPoll = "none"
ParserIdle == stream = <<>> /\ rest = <<>> /\ jsonBuffer = <<>> /\ emitted = <<>>
ArtIdle == now = 0 /\ files = [t \in {} |-> 0] /\ artifacts = <<>>

Init == ServiceInit /\ ApiIdle /\ PollIdle /\ ParserIdle /\ ArtIdle

----
\* initialize(): await startPythonProcess(); its continuation (initialized =
\* true, emit('ready')) runs where the promise is resolved, see StderrData.
initialize(exists) == startPythonProcess(exists)

\* RestartTimerFire with setInterval in place of setTimeout: the timer stays
\* armed after it has fired.
RestartTimerFire_Interval(exists) ==
    /\ restartTimers > 0
    /\ nInit < MaxInit
    /\ initialize(exists)
    /\ UNCHANGED <<initialized, restartAttempts, markerSeen, stdinDestroyed, inbox,
                   restartTimers, callVars, shutdownCalled>>

\* The restart timer of handleProcessExit (setTimeout, 5000) fires once.
RestartTimerFire(exists) ==
    /\ restartTimers > 0
    /\ nInit < MaxInit
    /\ restartTimers' = restartTimers - 1
    /\ initialize(exists)
    /\ UNCHANGED <<initialized, restartAttempts, markerSeen, stdinDestroyed, inbox,
                   callVars, shutdownCalled>>

\* handleProcessExit with <= in place of < in the comparison with
\* maxRestartAttempts.
handleProcessExit_Leq ==
    /\ initialized' = FALSE
    /\ process' = null
    /\ IF restartAttempts <= maxRestartAttempts
       THEN /\ restartAttempts' = restartAttempts + 1
            /\ restartTimers' = restartTimers + 1
       ELSE UNCHANGED <<restartAttempts, restartTimers>>

\* handleProcessExit without this.initialized = false.
handleProcessExit_KeepReady ==
    /\ UNCHANGED initialized
    /\ process' = null
    /\ IF restartAttempts < maxRestartAttempts
       THEN /\ restartAttempts' = restartAttempts + 1
            /\ restartTimers' = restartTimers + 1
       ELSE UNCHANGED <<restartAttempts, restartTimers>>

\* handleProcessExit()
handleProcessExit ==
    /\ initialized' = FALSE
    /\ process' = null
    /\ IF restartAttempts < maxRestartAttempts
       THEN /\ restartAttempts' = restartAttempts + 1
            /\ restartTimers' = restartTimers + 1
       ELSE UNCHANGED <<restartAttempts, restartTimers>>

\* process.on('exit'): child i terminates (by itself or after kill()).
ProcessExit(i) ==
    /\ child[i] = "running"
    /\ child' = [child EXCEPT ![i] = "exited"]
    /\ inbox' = [inbox EXCEPT ![i] = <<>>]
    /\ stdinDestroyed' = [stdinDestroyed EXCEPT ![i] = TRUE]
    /\ handleProcessExit
    /\ UNCHANGED <<initVars, markerSeen, callVars, shutdownCalled>>

\* process.stderr.on('data'): a chunk of child i's diagnostic stream, with or
\* without the readiness marker (which a worker writes once).
\* With the marker: initialized = true; emit('ready') runs every attached
\* once('ready') listener (clearTimeout, resolve); resolve() of invocation i;
\* then each initialize() whose promise was resolved continues with
\* initialized = true and emit('ready') (no listener is left by then).
StderrData(i, marker) ==
    /\ child[i] = "running"
    /\ IF marker
       THEN /\ ~markerSeen[i]
            /\ markerSeen' = [markerSeen EXCEPT ![i] = TRUE]
            /\ initialized' = TRUE
            /\ readyListener' = [j \in Inits |-> FALSE]
            /\ startTimer' = [j \in Inits |-> startTimer[j] /\ ~readyListener[j]]
            /\ startPromise' = [j \in Inits |->
                                  IF (readyListener[j] \/ j = i) /\ startPromise[j] = "pending"
                                  THEN "resolved" ELSE startPromise[j]]
            /\ UNCHANGED nInit
       ELSE UNCHANGED <<initialized, markerSeen, initVars>>
    /\ UNCHANGED <<process, restartAttempts, child, stdinDestroyed, inbox, restartTimers,
                   callVars, shutdownCalled>>

\* The 120 s timer of invocation i fires: reject unless this.initialized.
\* initialize() catches the rejection and emits 'error'.
StartupTimeout(i) ==
    /\ startTimer[i]
    /\ startTimer' = [startTimer EXCEPT ![i] = FALSE]
    /\ startPromise' = [startPromise EXCEPT ![i] =
                          IF ~initialized /\ @ = "pending" THEN "rejected" ELSE @]
    /\ UNCHANGED <<svcVars, nInit, readyListener, childVars, restartTimers, callVars,
                   shutdownCalled>>

\* The worker's end of its stdin pipe goes away while the handle is held.
StdinClose(i) ==
    /\ child[i] = "running"
    /\ ~stdinDestroyed[i]
    /\ stdinDestroyed' = [stdinDestroyed EXCEPT ![i] = TRUE]
    /\ UNCHANGED <<svcVars, initVars, child, markerSeen, inbox, restartTimers, callVars,
                   shutdownCalled>>

----
\* ResolveEntry with the reject(...) before the return of the empty-buffer
\* check left out: the wrapper returns with the promise still pending.
ResolveEntry_NoReject(success, audio, fs) ==
    IF success /\ audio # "absent"
    THEN IF audio = "nonhex" THEN "pending"
         ELSE IF fs = "throw" THEN "saveFailed"
         ELSE IF fs = "short" THEN "writeMismatch"
         ELSE "ref"
    ELSE "workerError"

\* ResolveEntry without the comparison of the saved size with the buffer
\* length.
ResolveEntry_NoSizeCheck(success, audio, fs) ==
    IF success /\ audio # "absent"
    THEN IF audio = "nonhex" THEN "emptyBuffer"
         ELSE IF fs = "throw" THEN "saveFailed"
         ELSE "ref"
    ELSE "workerError"

\* The resolve wrapper generateAudio stores in pendingRequests, after its
\* clearTimeout: what the promise is settled with.
\*   audio: response.audio_data is "absent" (undefined or ''), "nonhex" (decodes
\*          to zero bytes) or "hex" (decodes to at least one byte)
\*   fs:    writeFileSync/statSync "throw", leave a file of another size
\*          ("short"), or succeed ("ok")
ResolveEntry(success, audio, fs) ==
    IF success /\ audio # "absent"
    THEN IF audio = "nonhex" THEN "emptyBuffer"
         ELSE IF fs = "throw" THEN "saveFailed"
         ELSE IF fs = "short" THEN "writeMismatch"
         ELSE "ref"
    ELSE "workerError"

\* handleResponse(response): the response goes to the first key of
\* pendingRequests (the response carries no id).
handleResponse(success, audio, fs) ==
    IF pendingRequests = <<>>
    THEN UNCHANGED callVars
    ELSE LET requestId == Head(pendingRequests) IN
         /\ pendingRequests' = Delete(pendingRequests, requestId)
         /\ callTimer' = [callTimer EXCEPT ![requestId] = FALSE]
         /\ outcome' = [outcome EXCEPT ![requestId] =
                          Settle(@, IF success
                                    THEN ResolveEntry(success, audio, fs)
                                    ELSE "workerError")]
         /\ UNCHANGED requestIdCounter

\* process.stdout.on('data'): child i answers the oldest request on its stdin
\* and the complete record reaches the parser, which calls handleResponse.
StdoutData(i, success, audio, fs) ==
    /\ child[i] = "running"
    /\ inbox[i] # <<>>
    /\ inbox' = [inbox EXCEPT ![i] = Tail(@)]
    /\ handleResponse(success, audio, fs)
    /\ UNCHANGED <<svcVars, initVars, child, markerSeen, stdinDestroyed, restartTimers,
                   shutdownCalled>>

\* generateAudioThrows without the test of this.initialized.
generateAudioThrows_NoInitCheck(blank) ==
    IF process = null THEN "notInitialized"
    ELSE IF blank THEN "emptyText"
    ELSE "none"

\* generateAudioThrows without the test of the text.
generateAudioThrows_NoTextCheck(blank) ==
    IF ~initialized \/ process = null THEN "notInitialized"
    ELSE "none"

\* The two guards at the head of generateAudio: what it throws, or "none".
\*   'Kokoro TTS service not initialized', 'Text cannot be empty'
generateAudioThrows(blank) ==
    IF ~initialized \/ process = null THEN "notInitialized"
    ELSE IF blank THEN "emptyText"
    ELSE "none"

\* generateAudio(text, speed); blank: text is empty or whitespace only.
generateAudio(blank) ==
    IF generateAudioThrows(blank) # "none"
    THEN \* throw new Error(...)
         UNCHANGED vars
    ELSE LET requestId == requestIdCounter IN
         /\ requestIdCounter < MaxCalls
         /\ requestIdCounter' = requestIdCounter + 1
         /\ callTimer' = [callTimer EXCEPT ![requestId] = TRUE]
         /\ IF stdinDestroyed[process]
            THEN \* catch: pendingRequests.delete(requestId); reject(...)
                 /\ pendingRequests' = Delete(Append(pendingRequests, requestId), requestId)
                 /\ outcome' = [outcome EXCEPT ![requestId] = "sendFailed"]
                 /\ UNCHANGED inbox
            ELSE /\ pendingRequests' = Append(pendingRequests, requestId)
                 /\ outcome' = [outcome EXCEPT ![requestId] = "pending"]
                 /\ inbox' = [inbox EXCEPT ![process] = Append(@, requestId)]
         /\ UNCHANGED <<svcVars, initVars, child, markerSeen, stdinDestroyed,
                        restartTimers, shutdownCalled>>

\* CallTimeout without this.pendingRequests.delete(requestId).
CallTimeout_NoDelete(requestId) ==
    /\ callTimer[requestId]
    /\ callTimer' = [callTimer EXCEPT ![requestId] = FALSE]
    /\ outcome' = [outcome EXCEPT ![requestId] = Settle(@, "timeout")]
    /\ UNCHANGED <<svcVars, initVars, childVars, restartTimers, requestIdCounter,
                   pendingRequests, shutdownCalled>>

\* The 60 s timer of call requestId fires.
CallTimeout(requestId) ==
    /\ callTimer[requestId]
    /\ callTimer' = [callTimer EXCEPT ![requestId] = FALSE]
    /\ pendingRequests' = Delete(pendingRequests, requestId)
    /\ outcome' = [outcome EXCEPT ![requestId] = Settle(@, "timeout")]
    /\ UNCHANGED <<svcVars, initVars, childVars, restartTimers, requestIdCounter,
                   shutdownCalled>>

\* shutdown without this.pendingRequests.clear().
shutdown_KeepPending ==
    /\ process' = null
    /\ initialized' = FALSE
    /\ readyListener' = [j \in Inits |-> FALSE]
    /\ shutdownCalled' = TRUE
    /\ UNCHANGED <<restartAttempts, nInit, startPromise, startTimer, childVars,
                   restartTimers, callVars>>

\* shutdown(): kill() only signals the child, whose 'exit' event comes later.
shutdown ==
    /\ process' = null
    /\ initialized' = FALSE
    /\ pendingRequests' = <<>>
    /\ readyListener' = [j \in Inits |-> FALSE]
    /\ shutdownCalled' = TRUE
    /\ UNCHANGED <<restartAttempts, nInit, startPromise, startTimer, childVars,
                   restartTimers, requestIdCounter, callTimer, outcome>>

----
Audio == {"absent", "nonhex", "hex"}
FsResult == {"ok", "throw", "short"}

Next ==
    \/ (\E exists \in BOOLEAN : RestartTimerFire(exists)) /\ UNCHANGED auxVars
    \/ (\E i \in Inits : ProcessExit(i)) /\ UNCHANGED auxVars
    \/ (\E i \in Inits, marker \in BOOLEAN : StderrData(i, marker)) /\ UNCHANGED auxVars
    \/ (\E i \in Inits : StartupTimeout(i)) /\ UNCHANGED auxVars
    \/ (\E i \in Inits : StdinClose(i)) /\ UNCHANGED auxVars
    \/ (\E i \in Inits, success \in BOOLEAN, audio \in Audio, fs \in FsResult :
          StdoutData(i, success, audio, fs)) /\ UNCHANGED auxVars
    \/ (\E blank \in BOOLEAN : generateAudio(blank)) /\ UNCHANGED auxVars
    \/ (\E requestId \in Ids : CallTimeout(requestId)) /\ UNCHANGED auxVars
    \/ shutdown /\ UNCHANGED auxVars

Spec == Init /\ [][Next]_allVars

\* Node runs every armed timer: the 60 s timer of each call fires.
FairSpec == Spec /\ \A requestId \in Ids : WF_vars(CallTimeout(requestId))

\* Node runs every armed timer: the 5 s restart timer fires.
RestartFairSpec == Spec /\ WF_vars(\E exists \in BOOLEAN : RestartTimerFire(exists))

----
\* Strictly sequential use: the caller invokes generateAudio only when none of
\* its earlier calls is still pending (each has ended, by a response, by its
\* timeout or otherwise).
NonePending == \A id \in Ids : outcome[id] # "pending"

SeqNext ==
    \/ (\E exists \in BOOLEAN : RestartTimerFire(exists)) /\ UNCHANGED auxVars
    \/ (\E i \in Inits : ProcessExit(i)) /\ UNCHANGED auxVars
    \/ (\E i \in Inits, marker \in BOOLEAN : StderrData(i, marker)) /\ UNCHANGED auxVars
    \/ (\E i \in Inits : StartupTimeout(i)) /\ UNCHANGED auxVars
    \/ (\E i \in Inits : StdinClose(i)) /\ UNCHANGED auxVars
    \/ (\E i \in Inits, success \in BOOLEAN, audio \in Audio, fs \in FsResult :
          StdoutData(i, success, audio, fs)) /\ UNCHANGED auxVars
    \/ (NonePending /\ \E blank \in BOOLEAN : generateAudio(blank)) /\ UNCHANGED auxVars
    \/ (\E requestId \in Ids : CallTimeout(requestId)) /\ UNCHANGED auxVars
    \/ shutdown /\ UNCHANGED auxVars

SeqSpec == Init /\ [][SeqNext]_allVars

----
\* The stdout handler on the worker's real byte stream.  A character is a
\* one-character string; the worker writes JSON objects with one string
\* member at most, possibly nested, one per line.
quote == "\""
WS == {" ", "\n"}

\* number of records a worker writes in one run
MaxRecords == 2

Min(S) == CHOOSE x \in S : \A y \in S : x <= y

Record(k, v) == <<"{", quote, k, quote, ":", quote, v, quote, "}">>
Records == {Record("a", "x"), Record("b", "y")}

RECURSIVE Concat(_)
Concat(ss) == IF ss = <<>> THEN <<>> ELSE Head(ss) \o Concat(Tail(ss))

\* What a worker can write: 1..MaxRecords records, a newline after each; the
\* newline after the last one is written or not.
Streams ==
    {Concat([k \in 1..Len(rs) |-> rs[k] \o <<"\n">>]) :
        rs \in UNION {[1..n -> Records] : n \in 1..MaxRecords}}
    \cup {Concat([k \in 1..Len(rs) |-> IF k < Len(rs) THEN rs[k] \o <<"\n">> ELSE rs[k]]) :
        rs \in UNION {[1..n -> Records] : n \in 1..MaxRecords}}

\* JSON.parse skips white space between tokens.
RECURSIVE SkipWs(_, _)
SkipWs(s, p) == IF p <= Len(s) /\ s[p] \in WS THEN SkipWs(s, p + 1) ELSE p

\* JSON.parse on a string literal that opens at s[p]: it runs to the next
\* quote; the input ending first is the 'Unterminated string' error, a raw
\* newline first is another error.
ScanString(s, p) ==
    LET ends == {q \in (p + 1)..Len(s) : s[q] \in {quote, "\n"}} IN
    IF ends = {} THEN [kind |-> "unterminated"]
    ELSE LET q == Min(ends) IN
         IF s[q] = "\n" THEN [kind |-> "other"]
         ELSE [kind |-> "ok", next |-> q + 1, value |-> SubSeq(s, p, q)]

\* JSON.parse on the value that starts at s[p]; value is the parsed value,
\* written without white space between its tokens.
RECURSIVE ParseValue(_, _)
ParseValue(s, p) ==
    IF p > Len(s) THEN [kind |-> "other"]
    ELSE IF s[p] = quote THEN ScanString(s, p)
    ELSE IF s[p] # "{" THEN [kind |-> "other"]
    ELSE LET p1 == SkipWs(s, p + 1) IN
         IF p1 > Len(s) THEN [kind |-> "other"]
         ELSE IF s[p1] = "}" THEN [kind |-> "ok", next |-> p1 + 1, value |-> <<"{", "}">>]
         ELSE IF s[p1] # quote THEN [kind |-> "other"]
         ELSE LET k == ScanString(s, p1) IN
              IF k.kind # "ok" THEN k
              ELSE LET p2 == SkipWs(s, k.next) IN
                   IF p2 > Len(s) \/ s[p2] # ":" THEN [kind |-> "other"]
                   ELSE LET v == ParseValue(s, SkipWs(s, p2 + 1)) IN
                        IF v.kind # "ok" THEN v
                        ELSE LET p4 == SkipWs(s, v.next) IN
                             IF p4 > Len(s) \/ s[p4] # "}" THEN [kind |-> "other"]
                             ELSE [kind |-> "ok", next |-> p4 + 1,
                                   value |-> <<"{">> \o k.value \o <<":">> \o v.value
                                             \o <<"}">>]

\* JSON.parse(s): "ok" with the value, or the SyntaxError it throws, told
\* apart as the handler does: message includes 'Unterminated string' or not.
JSONparse(s) ==
    LET v == ParseValue(s, SkipWs(s, 1)) IN
    IF v.kind # "ok" THEN v
    ELSE IF SkipWs(s, v.next) <= Len(s) THEN [kind |-> "other"]
    ELSE v

\* s.split('\n')
RECURSIVE Split(_)
Split(s) ==
    LET nl == {k \in 1..Len(s) : s[k] = "\n"} IN
    IF nl = {} THEN <<s>>
    ELSE <<SubSeq(s, 1, Min(nl) - 1)>> \o Split(SubSeq(s, Min(nl) + 1, Len(s)))

\* line.trim() is not empty
NonBlank(line) == \E k \in 1..Len(line) : line[k] \notin WS

\* The values of the lines of s that JSON.parse accepts, in order.
RECURSIVE ParsedLines(_)
ParsedLines(lines) ==
    IF lines = <<>> THEN <<>>
    ELSE LET r == JSONparse(Head(lines)) IN
         (IF NonBlank(Head(lines)) /\ r.kind = "ok" THEN <<r.value>> ELSE <<>>)
         \o ParsedLines(Tail(lines))

\* StdoutChunk with the buffer cleared after the split attempt whatever the
\* lines gave.
StdoutChunk_ClearAfterSplit(n) ==
    /\ rest # <<>>
    /\ n \in 1..Len(rest)
    /\ rest' = SubSeq(rest, n + 1, Len(rest))
    /\ LET buffer == jsonBuffer \o SubSeq(rest, 1, n)
           r == JSONparse(buffer)
       IN IF r.kind = "ok"
          THEN /\ emitted' = Append(emitted, r.value)
               /\ jsonBuffer' = <<>>
          ELSE IF r.kind = "unterminated"
          THEN \* return: the chunk stays appended
               /\ emitted' = emitted
               /\ jsonBuffer' = buffer
          ELSE /\ emitted' = emitted \o ParsedLines(Split(buffer))
               /\ jsonBuffer' = <<>>
    /\ UNCHANGED stream

\* process.stdout.on('data') for a chunk of the next n characters of the
\* stream.  emitted collects the arguments of the handleResponse calls.
StdoutChunk(n) ==
    /\ rest # <<>>
    /\ n \in 1..Len(rest)
    /\ rest' = SubSeq(rest, n + 1, Len(rest))
    /\ LET buffer == jsonBuffer \o SubSeq(rest, 1, n)
           r == JSONparse(buffer)
       IN IF r.kind = "ok"
          THEN /\ emitted' = Append(emitted, r.value)
               /\ jsonBuffer' = <<>>
          ELSE IF r.kind = "unterminated"
          THEN \* return: the chunk stays appended
               /\ emitted' = emitted
               /\ jsonBuffer' = buffer
          ELSE LET parsed == ParsedLines(Split(buffer)) IN
               /\ emitted' = emitted \o parsed
               /\ jsonBuffer' = IF parsed # <<>> THEN <<>> ELSE buffer
    /\ UNCHANGED stream

\* A worker is running, no call is pending (handleResponse finds no entry and
\* changes nothing), and the worker writes one of Streams.
ParserInit ==
    /\ ServiceInit /\ process # null
    /\ ApiIdle /\ PollIdle /\ ArtIdle
    /\ stream \in Streams
    /\ rest = stream
    /\ jsonBuffer = <<>>
    /\ emitted = <<>>

ParserNext ==
    \E n \in 1..(MaxRecords * (Len(Record("a", "x")) + 1)) :
        /\ pendingRequests = <<>>
        /\ StdoutChunk(n)
        /\ UNCHANGED <<vars, apiVars, pollVars, artVars>>

ParserSpec == ParserInit /\ [][ParserNext]_allVars

----
\* The artifact a resolve wrapper writes.  response.audio_data is absent or
\* a string over a hex digit ("f") and a character that is none ("g").
MaxAudio == 4
MaxTime == 2

HexDigits == {"f"}
AudioData == UNION {[1..n -> {"f", "g"}] : n \in 0..MaxAudio}

\* Buffer.from(data, 'hex').length: the pairs of hex digits in front of the
\* first character that is none; a last character without a partner is
\* dropped.
RECURSIVE DecodedLength(_)
DecodedLength(data) ==
    IF Len(data) >= 2 /\ data[1] \in HexDigits /\ data[2] \in HexDigits
    THEN 1 + DecodedLength(SubSeq(data, 3, Len(data)))
    ELSE 0

\* response.audio_data as the conditions of the resolve wrapper see it.
AudioClass(present, data) ==
    IF ~present \/ data = <<>> THEN "absent"
    ELSE IF DecodedLength(data) = 0 THEN "nonhex"
    ELSE "hex"

\* fs.writeFileSync(filepath, audioBuffer) is reached and returns.
WritesFile(success, audio, fs) == success /\ audio = "hex" /\ fs # "throw"

\* fs.statSync(filepath).size for a buffer of n bytes.
SavedSize(n, fs) == IF fs = "ok" THEN n ELSE n - 1

\* One response of child i is handled (a chunk with one record, or one line
\* of the fallback loop): handleResponse, and for a pending entry the file
\* operations of its resolve wrapper.  The file name is made of Date.now().
Respond(i, success, present, data, fs) ==
    LET audio == AudioClass(present, data) IN
    /\ StdoutData(i, success, audio, fs)
    /\ IF pendingRequests = <<>>
       THEN UNCHANGED <<files, artifacts>>
       ELSE LET size == SavedSize(DecodedLength(data), fs) IN
            /\ files' = IF WritesFile(success, audio, fs)
                        THEN [t \in DOMAIN files \cup {now} |->
                                 IF t = now THEN size ELSE files[t]]
                        ELSE files
            /\ artifacts' = Append(artifacts,
                 [id |-> Head(pendingRequests),
                  success |-> success,
                  audio |-> audio,
                  empty |-> present /\ data = <<>>,
                  decoded |-> IF present THEN DecodedLength(data) ELSE 0,
                  fs |-> fs,
                  outcome |-> outcome'[Head(pendingRequests)],
                  timestamp |-> now,
                  written |-> WritesFile(success, audio, fs)])
    /\ UNCHANGED now

\* Date.now() advances between two callbacks, or does not.
Tick ==
    /\ now < MaxTime
    /\ now' = now + 1
    /\ UNCHANGED <<files, artifacts>>

ArtifactNext ==
    \/ (\E i \in Inits, marker \in BOOLEAN : StderrData(i, marker)) /\ UNCHANGED auxVars
    \/ (\E blank \in BOOLEAN : generateAudio(blank)) /\ UNCHANGED auxVars
    \/ (\E requestId \in Ids : CallTimeout(requestId)) /\ UNCHANGED auxVars
    \/ (\E i \in Inits, success \in BOOLEAN, present \in BOOLEAN, data \in AudioData,
           fs \in FsResult : Respond(i, success, present, data, fs))
       /\ UNCHANGED <<apiVars, pollVars, parserVars>>
    \/ Tick /\ UNCHANGED <<vars, apiVars, pollVars, parserVars>>

ArtifactSpec == Init /\ [][ArtifactNext]_allVars

----
\* The service with its callers observed: which public method a step
\* invoked and what the call threw.
NoApiCall == apiCall' = "none" /\ thrown' = "none"

ApiGenerateAudio(blank) ==
    /\ generateAudio(blank)
    /\ apiCall' = IF blank THEN "generateAudioBlank" ELSE "generateAudio"
    /\ thrown' = generateAudioThrows(blank)

\* shutdown() has no throw statement and calls kill() on a handle it holds.
ApiShutdown ==
    /\ shutdown
    /\ apiCall' = IF shutdownCalled THEN "shutdownAgain" ELSE "shutdown"
    /\ thrown' = "none"

ApiNext ==
    \/ (\E exists \in BOOLEAN : RestartTimerFire(exists)) /\ NoApiCall
       /\ UNCHANGED <<pollVars, parserVars, artVars>>
    \/ (\E i \in Inits : ProcessExit(i)) /\ NoApiCall
       /\ UNCHANGED <<pollVars, parserVars, artVars>>
    \/ (\E i \in Inits, marker \in BOOLEAN : StderrData(i, marker)) /\ NoApiCall
       /\ UNCHANGED <<pollVars, parserVars, artVars>>
    \/ (\E i \in Inits : StartupTimeout(i)) /\ NoApiCall
       /\ UNCHANGED <<pollVars, parserVars, artVars>>
    \/ (\E i \in Inits : StdinClose(i)) /\ NoApiCall
       /\ UNCHANGED <<pollVars, parserVars, artVars>>
    \/ (\E i \in Inits, success \in BOOLEAN, audio \in Audio, fs \in FsResult :
          StdoutData(i, success, audio, fs)) /\ NoApiCall
       /\ UNCHANGED <<pollVars, parserVars, artVars>>
    \/ (\E blank \in BOOLEAN : ApiGenerateAudio(blank))
       /\ UNCHANGED <<pollVars, parserVars, artVars>>
    \/ (\E requestId \in Ids : CallTimeout(requestId)) /\ NoApiCall
       /\ UNCHANGED <<pollVars, parserVars, artVars>>
    \/ ApiShutdown /\ UNCHANGED <<pollVars, parserVars, artVars>>

ApiSpec == Init /\ [][ApiNext]_allVars

----
\* isReady(), called once: its promise is "resolved" (with true) or the call
\* is "polling", the 1 s timer of checkReady armed.
isReady ==
    /\ readyPoll = "none"
    /\ readyPoll' = IF initialized /\ process # null THEN "resolved"
                    ELSE IF initialized THEN "resolved"   \* first checkReady()
                    ELSE "polling"

\* The 1 s timer fires: checkReady().
CheckReady ==
    /\ readyPoll = "polling"
    /\ readyPoll' = IF initialized THEN "resolved" ELSE "polling"

PollNext ==
    \/ (\E exists \in BOOLEAN : RestartTimerFire(exists)) /\ UNCHANGED auxVars
    \/ (\E i \in Inits : ProcessExit(i)) /\ UNCHANGED auxVars
    \/ (\E i \in Inits, marker \in BOOLEAN : StderrData(i, marker)) /\ UNCHANGED auxVars
    \/ (\E i \in Inits : StartupTimeout(i)) /\ UNCHANGED auxVars
    \/ (\E i \in Inits : StdinClose(i)) /\ UNCHANGED auxVars
    \/ (\E i \in Inits, success \in BOOLEAN, audio \in Audio, fs \in FsResult :
          StdoutData(i, success, audio, fs)) /\ UNCHANGED auxVars
    \/ (\E blank \in BOOLEAN : generateAudio(blank)) /\ UNCHANGED auxVars
    \/ (\E requestId \in Ids : CallTimeout(requestId)) /\ UNCHANGED auxVars
    \/ shutdown /\ UNCHANGED auxVars
    \/ isReady /\ UNCHANGED <<vars, apiVars, parserVars, artVars>>
    \/ CheckReady /\ UNCHANGED <<vars, apiVars, parserVars, artVars>>

PollSpec == Init /\ [][PollNext]_allVars

----
\* Vocabulary of the properties.
InMap(id) == \E k \in 1..Len(pendingRequests) : pendingRequests[k] = id
Completed(id) == outcome[id] \in Settled
Running == {i \in Inits : child[i] = "running"}
Exited == {i \in Inits : child[i] = "exited"}
NoSpawnStep == \A i \in Inits : child[i] = "unborn" => child'[i] = "unborn"
NoMarkerYet == \A i \in Inits : ~markerSeen[i]
StdoutStep(i) == \E success \in BOOLEAN, audio \in Audio, fs \in FsResult :
                    StdoutData(i, success, audio, fs)
\* what a stdout step parsed: the buffer with the chunk it took appended
ChunkBuffer == jsonBuffer \o SubSeq(rest, 1, Len(rest) - Len(rest'))
\* s is cut short: the rest of some record completes it
Incomplete(s) == \E r \in Records : \E k \in 1..(Len(r) + 1) :
                    JSONparse(s \o SubSeq(r, k, Len(r))).kind = "ok"
Ready == initialized /\ process # null
GenerateAudioCalled == apiCall' \in {"generateAudio", "generateAudioBlank"}
ShutdownCalled == apiCall' \in {"shutdown", "shutdownAgain"}
\* the records the worker wrote, and the stream being one record all delivered
StreamRecords == ParsedLines(Split(stream))
OneRecordFed == Len(StreamRecords) = 1 /\ rest = <<>>

----
\* C1: when the worker exits, every call that has an entry in pendingRequests
\* at that moment is failed in the same step; none is still pending after the
\* exit has been handled.
C1_ExitFailsPending ==
    [][\A i \in Inits : ProcessExit(i) =>
          \A id \in Ids : InMap(id) => outcome'[id] \in Settled \ {"ref"}]_vars

\* C2: a call whose timer fires while it is pending ends with the timeout
\* error and loses its entry; and when the worker answers a request whose call
\* has timed out, the response is dropped: no entry is removed and no call is
\* resolved or rejected by it.
C2_LateResponseDiscarded ==
    [][/\ \A id \in Ids : CallTimeout(id) /\ outcome[id] = "pending" =>
             outcome'[id] = "timeout" /\ ~InMap(id)'
       /\ \A i \in Inits :
             (inbox[i] # <<>> /\ StdoutStep(i) /\ outcome[Head(inbox[i])] = "timeout") =>
                 UNCHANGED <<pendingRequests, outcome, callTimer>>]_vars

\* C3 (as claimed): once three workers have exited and none has ever signalled
\* readiness, no worker is spawned any more and generateAudio cannot succeed
\* in registering a call.
C3_StopsAfterThreeExits ==
    [][(NoMarkerYet /\ Cardinality(Exited) >= 3) =>
          NoSpawnStep /\ requestIdCounter' = requestIdCounter]_vars

\* C3 (amended): the service stops after the fourth exit, that is after the
\* exit that finds restartAttempts = maxRestartAttempts: from then on no
\* restart is armed, no worker is spawned or running, the service is not
\* ready and holds no handle, and generateAudio registers no call.
C3_StopsAfterFourExits ==
    /\ [](Cardinality(Exited) > maxRestartAttempts =>
            /\ restartAttempts = maxRestartAttempts
            /\ restartTimers = 0
            /\ Running = {}
            /\ ~initialized
            /\ process = null)
    /\ [][Cardinality(Exited) > maxRestartAttempts =>
            NoSpawnStep /\ requestIdCounter' = requestIdCounter]_vars

\* Four workers exited one after the other, none of them ever ready.
C3_Witness ==
    /\ NoMarkerYet
    /\ Cardinality(Exited) = maxRestartAttempts + 1
    /\ ~shutdownCalled

\* C4: in the state right after the readiness marker of a worker is observed,
\* restartAttempts is zero.
C4_CounterZeroAfterReady ==
    [][\A i \in Inits : StderrData(i, TRUE) => restartAttempts' = 0]_vars

\* C5: every call that registers a pending entry is eventually settled (with a
\* storage reference or an error), and a settled call never changes its
\* outcome.
C5_ExactlyOnce ==
    /\ \A id \in Ids : (outcome[id] = "pending") ~> Completed(id)
    /\ [][\A id \in Ids : Completed(id) => outcome'[id] = outcome[id]]_vars

\* One call was rejected when its write failed and its timer has fired since
\* (a second rejection, ignored); the other call was cleared by shutdown()
\* and ended by its timer.
C5_Witness ==
    /\ outcome[0] = "sendFailed" /\ ~callTimer[0]
    /\ outcome[1] = "timeout" /\ shutdownCalled

\* C6: shutdown() settles every call that has an entry in pendingRequests, in
\* the same step, with an error that is not the timeout error.
C6_ShutdownFailsOutstanding ==
    [][shutdown =>
          \A id \in Ids : InMap(id) => outcome'[id] \in Settled \ {"ref", "timeout"}]_vars

\* C7: once shutdown() has been called, no restart is armed and no worker is
\* spawned.
C7_NoSpawnAfterShutdown ==
    [][shutdownCalled => NoSpawnStep /\ restartTimers' <= restartTimers]_vars

\* C8: at most one worker process is running in every state.
C8_AtMostOneLive == Cardinality(Running) <= 1

\* The last worker the code can spawn runs, after a shutdown() and with the
\* startup timer of an earlier worker still armed.
C8_Witness ==
    /\ child[maxRestartAttempts + 1] = "running"
    /\ shutdownCalled
    /\ \E i \in Inits : child[i] = "exited" /\ startTimer[i]

\* C9: once a startup has failed (the promise of a startPythonProcess call is
\* rejected) the service is never ready.
C9_InitFailureTerminal ==
    (\E i \in Inits : startPromise[i] = "rejected") => ~initialized

\* C10: whenever the service is ready it holds the handle of a running worker
\* that has written the readiness marker.
C10_ReadyOnlyByMarker ==
    initialized => /\ process # null
                   /\ child[process] = "running"
                   /\ markerSeen[process]

\* C11: under strictly sequential use, a response of the worker settles no
\* call other than the one whose request the worker is answering.
C11_SequentialCorrelationSafe ==
    [][\A i \in Inits :
          (inbox[i] # <<>> /\ StdoutStep(i)) =>
              \A id \in Ids : outcome'[id] # outcome[id] => id = Head(inbox[i])]_vars

C13_ReferenceOnlyIfVerified ==
    /\ [][\A id \in Ids :
            (outcome[id] = "pending" /\ outcome'[id] = "ref") =>
                /\ now \in DOMAIN files'
                /\ files'[now] = artifacts'[Len(artifacts')].decoded]_allVars
    /\ [](\A k \in 1..Len(artifacts) :
            (artifacts[k].success /\ artifacts[k].audio = "hex" /\ artifacts[k].fs # "ok")
                => artifacts[k].outcome \in {"saveFailed", "writeMismatch"})

\* One call got its reference for a two-byte payload, another one failed the
\* size check.
C13_Witness ==
    \E j, k \in 1..Len(artifacts) :
        /\ artifacts[j].outcome = "ref" /\ artifacts[j].decoded = 2
        /\ files[artifacts[j].timestamp] = 2
        /\ artifacts[k].outcome = "writeMismatch"

\* C14: a response with success = true whose audio_data is the empty string
\* or decodes to zero bytes ends its call with the empty-payload error and
\* writes no file.
C14_EmptyPayloadError ==
    \A k \in 1..Len(artifacts) :
        (artifacts[k].success /\ (artifacts[k].empty \/ artifacts[k].audio = "nonhex"))
            => artifacts[k].outcome = "emptyBuffer" /\ ~artifacts[k].written

\* C15: two calls that were resolved with a reference got different
\* references, and each reference has its own file.
C15_DistinctReferences ==
    \A j, k \in 1..Len(artifacts) :
        (j # k /\ artifacts[j].outcome = "ref" /\ artifacts[k].outcome = "ref")
            => artifacts[j].timestamp # artifacts[k].timestamp

\* C16 (as claimed): in every state of the service, generateAudio with blank
\* text throws the empty-text error and changes nothing (no entry, no write
\* to the worker).
C16_BlankTextInvalidInput ==
    [][apiCall' = "generateAudioBlank" =>
          thrown' = "emptyText" /\ UNCHANGED vars]_allVars

\* C16 (amended): generateAudio with blank text always throws at once and
\* changes nothing; it throws the empty-text error when the service is ready
\* and the not-initialized error when it is not (readiness is tested first).
C16_BlankTextFailsFast ==
    [][apiCall' = "generateAudioBlank" =>
          /\ thrown' = IF Ready THEN "emptyText" ELSE "notInitialized"
          /\ UNCHANGED vars]_allVars

\* generateAudio with blank text was refused while another call is pending.
C16_Witness ==
    /\ apiCall = "generateAudioBlank"
    /\ thrown = "emptyText"
    /\ pendingRequests # <<>>

\* C17: generateAudio called while the service is not ready throws the
\* not-initialized error and changes nothing: no entry, no counter advance,
\* no write to the worker, no spawn.
C17_NotReadyRejected ==
    [][(GenerateAudioCalled /\ ~Ready) =>
          thrown' = "notInitialized" /\ UNCHANGED vars]_allVars

\* generateAudio was refused during the backoff after an exit, with a call
\* registered before the exit.
C17_Witness ==
    /\ apiCall = "generateAudio"
    /\ thrown = "notInitialized"
    /\ restartTimers > 0
    /\ requestIdCounter > 0
    /\ ~shutdownCalled

\* C18: shutdown() throws nothing and leaves the service without a handle,
\* not ready and with no pending entry; a shutdown() that follows a
\* shutdown() changes nothing.
C18_ShutdownIdempotent ==
    /\ [][ShutdownCalled =>
            /\ thrown' = "none"
            /\ process' = null /\ ~initialized' /\ pendingRequests' = <<>>]_allVars
    /\ [][(apiCall \in {"shutdown", "shutdownAgain"} /\ ShutdownCalled) =>
            UNCHANGED vars]_allVars

\* shutdown() was called again, on a service whose worker was never started
\* (the script does not exist).
C18_Witness ==
    /\ apiCall = "shutdownAgain"
    /\ \A i \in Inits : child[i] = "unborn"

\* C19: the promise of isReady() is resolved only in a state where the
\* service is ready: the flag is set and the handle of a running worker is
\* held.
C19_ResolvesOnlyWhenReady ==
    [][(readyPoll # "resolved" /\ readyPoll' = "resolved") =>
          /\ initialized
          /\ process # null
          /\ child[process] = "running"]_allVars

\* C20: when a stream of newline-terminated records has been delivered, in
\* any chunks, the parser has emitted every record of the stream exactly
\* once, in stream order, and nothing else.
C20_EveryRecordOnceInOrder ==
    (stream[Len(stream)] = "\n" /\ rest = <<>>) => emitted = StreamRecords

\* C21: when the buffer with the new chunk fails to parse and is not a
\* record cut short, the handler emits the lines that parse on their own, in
\* order, and leaves the buffer empty, whether a line parsed or not.
C21_FallbackClearsBuffer ==
    [][(rest' # rest /\ JSONparse(ChunkBuffer).kind = "other" /\ ~Incomplete(ChunkBuffer)) =>
          /\ emitted' = emitted \o ParsedLines(Split(ChunkBuffer))
          /\ jsonBuffer' = <<>>]_allVars

\* C22: a worker exit leaves the service not ready and without a handle, and
\* spawns nothing itself; with restartAttempts below maxRestartAttempts it
\* adds one to the counter and arms one restart timer, otherwise it leaves
\* the counter and arms none.  A worker is spawned only by a restart timer
\* that fires, one worker per timer, and a timer that fires spawns one when
\* the worker script exists; at most one timer is armed, and an armed timer
\* fires.  Once the counter is at its ceiling with no timer armed and no
\* worker running, nothing is spawned any more.
C22_ExitHandling ==
    /\ [][\A i \in Inits : ProcessExit(i) =>
            /\ ~initialized' /\ process' = null
            /\ NoSpawnStep
            /\ IF restartAttempts < maxRestartAttempts
               THEN /\ restartAttempts' = restartAttempts + 1
                    /\ restartTimers' = restartTimers + 1
               ELSE /\ restartAttempts' = restartAttempts
                    /\ restartTimers' = 0]_vars
    /\ [][~NoSpawnStep =>
            /\ restartTimers' = restartTimers - 1
            /\ Cardinality({i \in Inits : child[i] # child'[i]}) = 1]_vars
    /\ [][RestartTimerFire(TRUE) => ~NoSpawnStep]_vars
    /\ [](restartTimers <= 1)
    /\ (restartTimers > 0) ~> (restartTimers = 0)
    /\ [][(restartAttempts = maxRestartAttempts /\ restartTimers = 0 /\ Running = {}) =>
            NoSpawnStep /\ restartTimers' = 0]_vars

\* The first worker was ready; it and three restarted workers have exited,
\* each of the first three exits followed by one restart.
C22_Witness ==
    /\ markerSeen[1]
    /\ \A i \in 1..(maxRestartAttempts + 1) : child[i] = "exited"
    /\ restartAttempts = maxRestartAttempts
    /\ restartTimers = 0

\* C23: every key of pendingRequests is the id of a call that is still
\* pending; a call that is settled in a step has no entry after that step;
\* the timer of a call removes no entry of another call; and handleResponse
\* takes the entry of a pending call only.
C23_EntriesArePending ==
    /\ [](\A id \in Ids : InMap(id) => outcome[id] = "pending")
    /\ [][\A id \in Ids : (outcome[id] = "pending" /\ Completed(id)') => ~InMap(id)']_vars
    /\ [][\A id \in Ids : CallTimeout(id) =>
            \A other \in Ids \ {id} : InMap(other)' = InMap(other)]_vars
    /\ [][\A i \in Inits : (StdoutStep(i) /\ pendingRequests' # pendingRequests) =>
            outcome[Head(pendingRequests)] = "pending"]_vars

\* Call 0 has timed out, the worker's response to request 0 went to call 1,
\* and request 1 is still with the worker.
C23_Witness ==
    /\ outcome[0] = "timeout"
    /\ outcome[1] \in {"ref", "workerError", "emptyBuffer", "saveFailed", "writeMismatch"}
    /\ pendingRequests = <<>>
    /\ \E i \in Inits : inbox[i] = <<1>>

====
